---- MODULE Spec2Model ----
(***************************************************************************)
(* The CSP Wordle solver of backend/wordle_solver/solver_lib.py and the    *)
(* two API handlers of backend/api.py that drive it.                       *)
(*                                                                         *)
(* A word is a sequence of WordLen letter indices (ord(c) - ord('a')), a   *)
(* feedback a sequence of WordLen marks "G" (correct), "Y" (present) and   *)
(* "B" (absent).  Python positions 0..4 are positions 1..5 here.           *)
(***************************************************************************)
EXTENDS Integers, Sequences, FiniteSets, TLC

\* range(5): every loop over the positions of a word
WordLen == 5
\* letters of the exhaustively enumerated guesses and targets are 0..MaxLetter
MaxLetter == 1

Positions == 1..WordLen

Letters == 0..MaxLetter

Words == [Positions -> Letters]

\* the docstring example of get_feedback: "leave" against "place"
ExampleGuess == <<11, 4, 0, 21, 4>>

ExampleTarget == <<15, 11, 0, 2, 4>>

ExampleFeedback == <<"Y", "B", "G", "B", "G">>

\* `c in word`
LettersOf(word) == {word[p] : p \in DOMAIN word}

\* number of positions of word holding char
Occurrences(word, char) == Cardinality({p \in DOMAIN word : word[p] = char})

(***************************************************************************)
(* get_feedback                                                            *)
(***************************************************************************)

\* Counter(target)
CounterOf(target) == [c \in LettersOf(target) |-> Occurrences(target, c)]

\* the first loop: 'G' where guess and target agree (the letter's count is
\* decremented), 'B' elsewhere
RECURSIVE FirstPass(_, _, _, _, _)
FirstPass(guess, target, feedback, target_counts, pos) ==
    IF pos > WordLen
    THEN [feedback |-> feedback, target_counts |-> target_counts]
    ELSE IF guess[pos] = target[pos]
         THEN FirstPass(guess, target, Append(feedback, "G"),
                        [target_counts EXCEPT ![guess[pos]] = @ - 1], pos + 1)
         ELSE FirstPass(guess, target, Append(feedback, "B"),
                        target_counts, pos + 1)

\* the condition of the second loop, as a plausible slip would write it: the
\* letter occurs in the target, whatever is left of its count
PresentHereNoCount(guess, feedback, target_counts, pos) ==
    /\ feedback[pos] = "B"
    /\ guess[pos] \in DOMAIN target_counts

\* the condition of the second loop
PresentHere(guess, feedback, target_counts, pos) ==
    /\ feedback[pos] = "B"
    /\ guess[pos] \in DOMAIN target_counts
    /\ target_counts[guess[pos]] > 0

\* the second loop: a 'B' becomes 'Y' while the letter's count lasts
RECURSIVE SecondPass(_, _, _, _)
SecondPass(guess, feedback, target_counts, pos) ==
    IF pos > WordLen
    THEN feedback
    ELSE IF PresentHere(guess, feedback, target_counts, pos)
         THEN SecondPass(guess, [feedback EXCEPT ![pos] = "Y"],
                         [target_counts EXCEPT ![guess[pos]] = @ - 1], pos + 1)
         ELSE SecondPass(guess, feedback, target_counts, pos + 1)

get_feedback(guess, target) ==
    LET first == FirstPass(guess, target, <<>>, CounterOf(target), 1)
    IN  SecondPass(guess, first.feedback, first.target_counts, 1)

AllCorrect == [p \in Positions |-> "G"]

(***************************************************************************)
(* filter_valid_words                                                      *)
(***************************************************************************)

GreenOk(word, guess, feedback) ==
    \A pos \in Positions :
        ~(feedback[pos] = "G" /\ word[pos] # guess[pos])

YellowOk(word, guess, feedback) ==
    \A pos \in Positions :
        feedback[pos] = "Y" =>
            ~(word[pos] = guess[pos] \/ guess[pos] \notin LettersOf(word))

\* letters of the guess marked 'G' or 'Y' somewhere
MarkedLetters(guess, feedback) ==
    {guess[p] : p \in {q \in Positions : feedback[q] \in {"G", "Y"}}}

\* the gray rule without the exemption of letters marked elsewhere: a gray
\* letter may occur nowhere in the word
GrayOkAbsentEverywhere(word, guess, feedback) ==
    \A pos \in Positions :
        feedback[pos] = "B" => guess[pos] \notin LettersOf(word)

GrayOk(word, guess, feedback) ==
    \A pos \in Positions :
        feedback[pos] = "B" =>
            ~(/\ guess[pos] \in LettersOf(word)
              /\ guess[pos] \notin MarkedLetters(guess, feedback))

KeepWord(word, guess, feedback) ==
    /\ GreenOk(word, guess, feedback)
    /\ YellowOk(word, guess, feedback)
    /\ GrayOk(word, guess, feedback)

filter_valid_words(words_list, guess, feedback) ==
    SelectSeq(words_list, LAMBDA word : KeepWord(word, guess, feedback))

(***************************************************************************)
(* Strings and letter indices                                              *)
(***************************************************************************)

\* ord('a')
OrdA == 97

\* [ord(c) - ord('a') for c in word]
ToInts(str) == [p \in DOMAIN str |-> str[p] - OrdA]

\* ''.join(chr(c + ord('a')) for c in guess)
ToStr(word) == [p \in DOMAIN word |-> word[p] + OrdA]

\* current_game["target_word"] before the first new_game
None == <<>>

(***************************************************************************)
(* The frequency tables of solve_wordle                                    *)
(***************************************************************************)

\* a frequency freq / total is kept as the pair <<freq, total>>
Zero == <<0, 1>>

\* positional_freq[pos][char] and letter_frequency[char]: a key never set
\* reads as 0 (defaultdict(int), Counter)
Lookup(table, char) == IF char \in DOMAIN table THEN table[char] ELSE Zero

SameValue(x, y) == x[1] * y[2] = y[1] * x[2]

LettersAt(words_list, pos) == {words_list[i][pos] : i \in DOMAIN words_list}

CountAt(words_list, pos, char) ==
    Cardinality({i \in DOMAIN words_list : words_list[i][pos] = char})

\* positional_freq after its normalisation by sum(positional_freq[pos].values())
PositionalFreq(words_list) ==
    [pos \in Positions |->
        [char \in LettersAt(words_list, pos) |->
            <<CountAt(words_list, pos, char), Len(words_list)>>]]

AllLetters(words_list) == UNION {LettersAt(words_list, pos) : pos \in Positions}

RECURSIVE SumOver(_, _)
SumOver(f, S) ==
    IF S = {} THEN 0
    ELSE LET x == CHOOSE y \in S : TRUE IN f[x] + SumOver(f, S \ {x})

\* Counter(itertools.chain.from_iterable(valid_words))[char]
TotalCount(words_list, char) ==
    SumOver([pos \in Positions |-> CountAt(words_list, pos, char)], Positions)

\* letter_frequency after its division by total_words = len(valid_words)
LetterFrequency(words_list) ==
    [char \in AllLetters(words_list) |->
        <<TotalCount(words_list, char), Len(words_list)>>]

\* the two tables denote the same frequencies
SameTable(t1, t2) ==
    \A char \in (DOMAIN t1) \cup (DOMAIN t2) :
        SameValue(Lookup(t1, char), Lookup(t2, char))

SamePositional(p1, p2) == \A pos \in Positions : SameTable(p1[pos], p2[pos])

(***************************************************************************)
(* The CP-SAT model: allowed-assignment tables, the constraints of         *)
(* update_model and the objective of update_heuristic                      *)
(***************************************************************************)

c_pos_freq == 1000

c_letter_freq == 2000

c_dup == 500

EmptyModel == [tables |-> <<>>, constraints |-> {}]

Fixed(pos, char) ==
    [kind |-> "eq", pos |-> pos, char |-> char, count |-> 0, gray |-> {}]

Excluded(pos, char) ==
    [kind |-> "ne", pos |-> pos, char |-> char, count |-> 0, gray |-> {}]

AtLeast(char, count, gray) ==
    [kind |-> "count", pos |-> 0, char |-> char, count |-> count, gray |-> gray]

\* gray_positions[char]
GrayPositions(guess, feedback, char) ==
    {pos \in Positions : feedback[pos] = "B" /\ guess[pos] = char}

\* letter_counts[char]
LetterCount(guess, feedback, char) ==
    Cardinality({pos \in Positions :
                    feedback[pos] \in {"G", "Y"} /\ guess[pos] = char})

\* update_model with a gray letter excluded from every position of the word
UpdateModelGrayEverywhere(guess, feedback) ==
    {Fixed(pos, guess[pos]) : pos \in {q \in Positions : feedback[q] = "G"}}
    \cup {Excluded(pos, guess[pos]) :
            pos \in {q \in Positions : feedback[q] = "Y"}}
    \cup {Excluded(pos, guess[q]) :
            pos \in Positions, q \in {r \in Positions : feedback[r] = "B"}}
    \cup {AtLeast(char, LetterCount(guess, feedback, char),
                  GrayPositions(guess, feedback, char)) :
            char \in MarkedLetters(guess, feedback)}

\* update_model: the constraints one guess and its feedback add
UpdateModel(guess, feedback) ==
    {Fixed(pos, guess[pos]) : pos \in {q \in Positions : feedback[q] = "G"}}
    \cup {Excluded(pos, guess[pos]) :
            pos \in {q \in Positions : feedback[q] \in {"Y", "B"}}}
    \cup {AtLeast(char, LetterCount(guess, feedback, char),
                  GrayPositions(guess, feedback, char)) :
            char \in MarkedLetters(guess, feedback)}

\* occurs[p] is tied to position_vars[p] == char except at the gray positions
\* of char, where it stays a free Boolean the solver may set
Satisfies(word, c) ==
    CASE c.kind = "eq" -> word[c.pos] = c.char
      [] c.kind = "ne" -> word[c.pos] # c.char
      [] c.kind = "count" ->
            Cardinality({p \in Positions \ c.gray : word[p] = c.char})
                + Cardinality(c.gray) >= c.count

ElementsOf(words_list) == {words_list[i] : i \in DOMAIN words_list}

\* the assignments of position_vars the model admits
Feasible(model) ==
    IF model.tables = <<>> THEN {}
    ELSE {word \in ElementsOf(model.tables[1]) :
            /\ \A i \in DOMAIN model.tables : word \in ElementsOf(model.tables[i])
            /\ \A c \in model.constraints : Satisfies(word, c)}

\* int(c_pos_freq * positional_freq[pos][char] + c_letter_freq * letter_frequency[char])
\* as the truncated exact quotient; the float sum truncates to the same integer
\* for every list of up to 8 words (from 9 words on it can come out one lower)
Score(positional_freq, letter_frequency, pos, char) ==
    LET pf == Lookup(positional_freq[pos], char)
        lf == Lookup(letter_frequency, char)
    IN  (c_pos_freq * pf[1] * lf[2] + c_letter_freq * lf[1] * pf[2])
            \div (pf[2] * lf[2])

\* num_duplicates at the optimum: the letters held by more than one position
NumDuplicates(word) ==
    Cardinality({char \in LettersOf(word) : Occurrences(word, char) > 1})

Objective(positional_freq, letter_frequency, word) ==
    SumOver([pos \in Positions |->
                Score(positional_freq, letter_frequency, pos, word[pos])],
            Positions)
    - c_dup * NumDuplicates(word)

\* solver.Solve(model) with status OPTIMAL (no limit is set on the solver, so
\* it never stops at FEASIBLE): any feasible maximiser of the objective
Optimal(model, positional_freq, letter_frequency) ==
    {word \in Feasible(model) :
        \A other \in Feasible(model) :
            Objective(positional_freq, letter_frequency, word)
                >= Objective(positional_freq, letter_frequency, other)}

\* list.remove left out
RemoveNothing(words_list, word) == words_list

\* list.remove(word): the first occurrence goes
Remove(words_list, word) ==
    IF word \notin ElementsOf(words_list) THEN words_list
    ELSE LET first == CHOOSE i \in DOMAIN words_list :
                        /\ words_list[i] = word
                        /\ \A j \in 1..(i - 1) : words_list[j] # word
         IN  SubSeq(words_list, 1, first - 1)
                \o SubSeq(words_list, first + 1, Len(words_list))

\* feedback == 'G' * 5: a list never equals a string
IsSolvedNever(feedback) == FALSE

\* feedback == ['G'] * 5
IsSolved(feedback) == feedback = AllCorrect

(***************************************************************************)
(* State                                                                   *)
(***************************************************************************)

VARIABLES
    words,             \* api.py: words["words"], the loaded strings
    words_data,        \* api.py: the module-level list of letter-index tuples
    target_word,       \* api.py: current_game["target_word"]
    pc,                \* "idle", "loop" (top of the for loop), "done" (returned)
    outcome,           \* how solve_wordle returned: solved, infeasible, exhausted
    entry_words,       \* the caller's list as it was when solve_wordle was entered
    valid_words,       \* solve_wordle: the local valid_words
    aliased,           \* valid_words still is the caller's list object
    target_as_int,     \* solve_wordle: target_as_int
    positional_freq,   \* solve_wordle: positional_freq
    letter_frequency,  \* solve_wordle: letter_frequency
    model,             \* solve_wordle: the CpModel
    response,          \* solve_wordle: response
    attempt,           \* solve_wordle: the loop variable
    max_attempts,      \* solve_wordle: max_attempts
    round_start,       \* the candidate list at the start of each round so far
    sessions,          \* calls of solve_wordle so far
    in_guess,          \* direct call: guess
    in_target,         \* direct call: target
    in_words,          \* direct call: words_data
    out_feedback,      \* direct call: the result of get_feedback
    out_valid,         \* direct call: the result of filter_valid_words
    fn_pc              \* direct call: "args", "fed", "filtered"

api_vars == <<words, words_data, target_word, sessions>>

solve_vars == <<pc, outcome, entry_words, valid_words, aliased, target_as_int,
                positional_freq, letter_frequency, model, response, attempt,
                max_attempts, round_start>>

fn_vars == <<in_guess, in_target, in_words, out_feedback, out_valid, fn_pc>>

vars == <<api_vars, solve_vars, fn_vars>>

(***************************************************************************)
(* Bounds and inputs                                                       *)
(***************************************************************************)

\* a dictionary holds at most MaxDict words
MaxDict == 3
\* get_solver_guess passes max_attempts=6; any other caller of solve_wordle
\* passes a value in 0..MaxAttempts
MaxAttempts == 2
\* solve_wordle is called at most MaxSessions times on the shared list
MaxSessions == 2

\* max_attempts=6: the default, and what get_solver_guess passes
DefaultMaxAttempts == 6

AttemptChoices == (0..MaxAttempts) \cup {DefaultMaxAttempts}

\* the words dictionaries are drawn from, in the order of the word file
\* (sorted, no word twice): aaccc abccc acbca baacc ccaab crane leave place
\* slate trace
Pool ==
    << <<0, 0, 2, 2, 2>>, <<0, 1, 2, 2, 2>>, <<0, 2, 1, 2, 0>>,
       <<1, 0, 0, 2, 2>>, <<2, 2, 0, 0, 1>>, <<2, 17, 0, 13, 4>>,
       <<11, 4, 0, 21, 4>>, <<15, 11, 0, 2, 4>>, <<18, 11, 0, 19, 4>>,
       <<19, 17, 0, 2, 4>> >>

RECURSIVE Pick(_, _)
\* the words of listing at the indices of chosen, in the order of listing
Pick(listing, chosen) ==
    IF listing = <<>> THEN <<>>
    ELSE LET rest == Pick(SubSeq(listing, 1, Len(listing) - 1), chosen)
         IN  IF Len(listing) \in chosen
             THEN Append(rest, listing[Len(listing)])
             ELSE rest

Dictionaries ==
    {Pick(Pool, chosen) :
        chosen \in {S \in SUBSET (DOMAIN Pool) :
                        Cardinality(S) >= 1 /\ Cardinality(S) <= MaxDict}}

\* [tuple(ord(c) - ord('a') for c in word) for word in words["words"]]
AllToInts(strings) == [i \in DOMAIN strings |-> ToInts(strings[i])]

\* the strings whose letter indices the list holds
AllToStr(words_list) == [i \in DOMAIN words_list |-> ToStr(words_list[i])]

EmptyResponse == [guesses |-> <<>>, feedback |-> <<>>, nb_possible_words |-> <<>>]

NoTables == [pos \in Positions |-> <<>>]

SolveIdle ==
    /\ pc = "idle"
    /\ outcome = "none"
    /\ entry_words = <<>>
    /\ valid_words = <<>>
    /\ aliased = FALSE
    /\ target_as_int = <<>>
    /\ positional_freq = NoTables
    /\ letter_frequency = <<>>
    /\ model = EmptyModel
    /\ response = EmptyResponse
    /\ attempt = 0
    /\ max_attempts = 0
    /\ round_start = <<>>

FnIdle ==
    /\ in_guess = <<>>
    /\ in_target = <<>>
    /\ in_words = <<>>
    /\ out_feedback = <<>>
    /\ out_valid = <<>>
    /\ fn_pc = "unused"

(***************************************************************************)
(* api.py and solve_wordle                                                 *)
(***************************************************************************)

\* module load: words read from the word file, words_data built from them
Init ==
    /\ words \in {AllToStr(dictionary) : dictionary \in Dictionaries}
    /\ words_data = AllToInts(words)
    /\ target_word = None
    /\ sessions = 0
    /\ SolveIdle
    /\ FnIdle

\* POST /new-game: random.choice over the loaded strings.  The handlers run
\* one after the other: a solve_wordle that has returned leaves no locals.
new_game ==
    /\ pc # "loop"
    /\ \E i \in DOMAIN words : target_word' = words[i]
    /\ pc' = "idle"
    /\ outcome' = "none"
    /\ entry_words' = <<>>
    /\ valid_words' = <<>>
    /\ aliased' = FALSE
    /\ target_as_int' = <<>>
    /\ positional_freq' = NoTables
    /\ letter_frequency' = <<>>
    /\ model' = EmptyModel
    /\ response' = EmptyResponse
    /\ attempt' = 0
    /\ max_attempts' = 0
    /\ round_start' = <<>>
    /\ UNCHANGED <<words, words_data, sessions, fn_vars>>

\* solve_wordle, lines 199-235: everything before the for loop, valid_words
\* being the caller's list itself
solve_wordle_entry ==
    /\ pc # "loop"
    /\ target_word # None
    /\ sessions < MaxSessions
    /\ \E m \in AttemptChoices : max_attempts' = m
    /\ sessions' = sessions + 1
    /\ entry_words' = words_data
    /\ valid_words' = words_data
    /\ aliased' = TRUE
    /\ target_as_int' = ToInts(target_word)
    /\ positional_freq' = PositionalFreq(words_data)
    /\ letter_frequency' = LetterFrequency(words_data)
    /\ model' = EmptyModel
    /\ response' = EmptyResponse
    /\ attempt' = 0
    /\ round_start' = <<>>
    /\ pc' = "loop"
    /\ outcome' = "none"
    /\ UNCHANGED <<words, words_data, target_word, fn_vars>>

\* the model as Solve sees it in this round: one more table of allowed
\* assignments (update_heuristic adds no constraint on position_vars)
ModelNow == [model EXCEPT !.tables = Append(@, valid_words)]

\* one iteration in which the solver finds no assignment: return response
round_infeasible ==
    /\ pc = "loop"
    /\ attempt < max_attempts
    /\ Feasible(ModelNow) = {}
    /\ model' = ModelNow
    /\ round_start' = Append(round_start, valid_words)
    /\ pc' = "done"
    /\ outcome' = "infeasible"
    /\ UNCHANGED <<api_vars, entry_words, valid_words, aliased, target_as_int,
                   positional_freq, letter_frequency, response, attempt,
                   max_attempts, fn_vars>>

\* response after lines 257-263 for this guess
Recorded(guess, left) ==
    [guesses |-> Append(response.guesses, ToStr(guess)),
     nb_possible_words |-> Append(response.nb_possible_words, Len(left)),
     feedback |-> Append(response.feedback, get_feedback(guess, target_as_int))]

\* one iteration whose feedback is all 'G': return response
round_solved ==
    /\ pc = "loop"
    /\ attempt < max_attempts
    /\ \E guess \in Optimal(ModelNow, positional_freq, letter_frequency) :
        LET left == Remove(valid_words, guess) IN
        /\ IsSolved(get_feedback(guess, target_as_int))
        /\ valid_words' = left
        /\ words_data' = IF aliased THEN left ELSE words_data
        /\ response' = Recorded(guess, left)
    /\ model' = ModelNow
    /\ round_start' = Append(round_start, valid_words)
    /\ pc' = "done"
    /\ outcome' = "solved"
    /\ UNCHANGED <<words, target_word, sessions, entry_words, aliased,
                   target_as_int, positional_freq, letter_frequency, attempt,
                   max_attempts, fn_vars>>

\* one iteration whose feedback is not all 'G': filter, update the model, go on
round_continue ==
    /\ pc = "loop"
    /\ attempt < max_attempts
    /\ \E guess \in Optimal(ModelNow, positional_freq, letter_frequency) :
        LET left == Remove(valid_words, guess)
            feedback == get_feedback(guess, target_as_int) IN
        /\ ~IsSolved(feedback)
        /\ words_data' = IF aliased THEN left ELSE words_data
        /\ response' = Recorded(guess, left)
        /\ valid_words' = filter_valid_words(left, guess, feedback)
        /\ model' = [ModelNow EXCEPT
                        !.constraints = @ \cup UpdateModel(guess, feedback)]
    /\ aliased' = FALSE
    /\ round_start' = Append(round_start, valid_words)
    /\ attempt' = attempt + 1
    /\ UNCHANGED <<words, target_word, sessions, pc, outcome, entry_words,
                   target_as_int, positional_freq, letter_frequency,
                   max_attempts, fn_vars>>

\* the for loop runs out: return response
loop_exhausted ==
    /\ pc = "loop"
    /\ attempt = max_attempts
    /\ pc' = "done"
    /\ outcome' = "exhausted"
    /\ UNCHANGED <<api_vars, entry_words, valid_words, aliased, target_as_int,
                   positional_freq, letter_frequency, model, response, attempt,
                   max_attempts, round_start, fn_vars>>

Next ==
    \/ new_game
    \/ solve_wordle_entry
    \/ round_infeasible
    \/ round_solved
    \/ round_continue
    \/ loop_exhausted

Spec == Init /\ [][Next]_vars

(***************************************************************************)
(* Direct calls of get_feedback and filter_valid_words (as                 *)
(* process_user_guess makes them), on arbitrary guesses and targets        *)
(***************************************************************************)

\* a third candidate besides guess and target: the target's letters at the
\* odd positions, the guess's at the even ones
Blend(guess, target) ==
    [p \in Positions |-> IF p % 2 = 1 THEN target[p] ELSE guess[p]]

\* the word lists a call of filter_valid_words is given
CandidateLists(guess, target) ==
    LET base == <<guess, Blend(guess, target), target>>
    IN  {Pick(base, chosen) : chosen \in (SUBSET (DOMAIN base)) \ {{}}}
        \cup {<<target, guess>>}

ApiIdle ==
    /\ words = <<>>
    /\ words_data = <<>>
    /\ target_word = None
    /\ sessions = 0

InitFn ==
    /\ in_guess \in Words \cup {ExampleGuess}
    /\ in_target \in Words \cup {ExampleTarget}
    /\ in_words = <<>>
    /\ out_feedback = <<>>
    /\ out_valid = <<>>
    /\ fn_pc = "args"
    /\ ApiIdle
    /\ SolveIdle

call_get_feedback ==
    /\ fn_pc = "args"
    /\ out_feedback' = get_feedback(in_guess, in_target)
    /\ fn_pc' = "fed"
    /\ UNCHANGED <<in_guess, in_target, in_words, out_valid, api_vars, solve_vars>>

call_filter_valid_words ==
    /\ fn_pc = "fed"
    /\ \E list \in CandidateLists(in_guess, in_target) :
        /\ in_words' = list
        /\ out_valid' = filter_valid_words(list, in_guess, out_feedback)
    /\ fn_pc' = "filtered"
    /\ UNCHANGED <<in_guess, in_target, out_feedback, api_vars, solve_vars>>

NextFn ==
    \/ call_get_feedback
    \/ call_filter_valid_words

SpecFn == InitFn /\ [][NextFn]_vars

(***************************************************************************)
(* Properties of get_feedback and filter_valid_words (under SpecFn)        *)
(***************************************************************************)

\* positions of the guess holding char and marked with one of marks
MarkedAt(guess, feedback, char, marks) ==
    {p \in Positions : guess[p] = char /\ feedback[p] \in marks}

\* the guess marks one letter both absent and correct or present
MixedMarks(guess, feedback) ==
    \E char \in LettersOf(guess) :
        /\ MarkedAt(guess, feedback, char, {"B"}) # {}
        /\ MarkedAt(guess, feedback, char, {"G", "Y"}) # {}

\* C1: soundness of filtering.  Whenever filter_valid_words is given a list
\* that contains the target and the feedback get_feedback produced for the
\* guess against that target, the target is in the returned list.
C1_FilterSound ==
    (fn_pc = "filtered" /\ in_target \in ElementsOf(in_words))
        => in_target \in ElementsOf(out_valid)

\* C1 witness: a guess with a repeated letter marked absent at one position
\* and correct or present at another, filtered over a list that holds the
\* target; the target is kept and another word is dropped.
C1_Witness ==
    /\ fn_pc = "filtered"
    /\ in_target \in ElementsOf(in_words)
    /\ in_target \in ElementsOf(out_valid)
    /\ MixedMarks(in_guess, out_feedback)
    /\ Len(out_valid) < Len(in_words)

\* C2: filter_valid_words keeps a word of the list exactly when get_feedback
\* of the guess against that word is the feedback given.
C2_FilterExact ==
    fn_pc = "filtered" =>
        \A i \in DOMAIN in_words :
            (in_words[i] \in ElementsOf(out_valid))
                <=> (get_feedback(in_guess, in_words[i]) = out_feedback)

\* the number of a letter's occurrences in the target that the correct marks
\* leave over
LeftOver(guess, target, char) ==
    Occurrences(target, char)
        - Cardinality({p \in Positions : guess[p] = char /\ target[p] = char})

\* C3: for every letter the correct and present marks together never exceed
\* the letter's occurrences in the target; a position is marked correct
\* exactly when guess and target agree there; a position that does not agree
\* is marked present exactly when fewer earlier non-agreeing positions hold
\* the same letter than the correct marks leave over of it; and the docstring
\* example yields Y,B,G,B,G.
C3_FeedbackCounts ==
    fn_pc \in {"fed", "filtered"} =>
        /\ \A char \in LettersOf(in_guess) :
                Cardinality(MarkedAt(in_guess, out_feedback, char, {"G", "Y"}))
                    <= Occurrences(in_target, char)
        /\ \A p \in Positions :
                (out_feedback[p] = "G") <=> (in_guess[p] = in_target[p])
        /\ \A p \in Positions :
                in_guess[p] # in_target[p] =>
                    ((out_feedback[p] = "Y") <=>
                        Cardinality({q \in 1..(p - 1) :
                                        /\ in_guess[q] = in_guess[p]
                                        /\ in_guess[q] # in_target[q]})
                            < LeftOver(in_guess, in_target, in_guess[p]))
        /\ (in_guess = ExampleGuess /\ in_target = ExampleTarget)
                => out_feedback = ExampleFeedback

\* C3 witness: the docstring example has been scored: its second 'e' is
\* correct and uses up the target's only 'e', so the first 'e' is absent.
C3_Witness ==
    /\ fn_pc = "fed"
    /\ in_guess = ExampleGuess
    /\ in_target = ExampleTarget
    /\ out_feedback = ExampleFeedback

(***************************************************************************)
(* Properties of solve_wordle and the API (under Spec)                     *)
(***************************************************************************)

Last(list) == list[Len(list)]

Target == target_as_int

\* a round is about to run: the loop is at its top with attempts left
RoundAhead == pc = "loop" /\ attempt < max_attempts

\* C4: the list the caller passes to solve_wordle is left as it was loaded:
\* words_data always equals the letter indices of the loaded words.
C4_DictionaryUnchanged == words_data = AllToInts(words)

\* C5: a round that starts with the target as the only candidate guesses the
\* target, gets all-'G' feedback, and is the last round: solve_wordle has
\* returned solved.
C5_SoleCandidateGuessed ==
    \A k \in DOMAIN round_start :
        round_start[k] = <<Target>> =>
            /\ Len(response.guesses) = k
            /\ response.guesses[k] = target_word
            /\ response.feedback[k] = AllCorrect
            /\ pc = "done"
            /\ outcome = "solved"

\* C5 witness: solve_wordle returned solved from a second or later round that
\* started with the target as the only candidate.
C5_Witness ==
    /\ pc = "done"
    /\ outcome = "solved"
    /\ Len(round_start) >= 2
    /\ Last(round_start) = <<Target>>
    /\ Last(response.guesses) = target_word

\* C6: the guesses of a session are pairwise different; a guessed word is no
\* longer among the candidates; and at the top of the loop no guessed word
\* is an assignment the solver can return.
C6_NoRepeatedGuess ==
    /\ \A i, j \in DOMAIN response.guesses :
            i # j => response.guesses[i] # response.guesses[j]
    /\ \A k \in DOMAIN response.guesses :
            ToInts(response.guesses[k]) \notin ElementsOf(valid_words)
    /\ pc = "loop" =>
            \A k \in DOMAIN response.guesses :
                ToInts(response.guesses[k]) \notin Feasible(ModelNow)

\* C6 witness: two guesses are made and a third round with a feasible model
\* is about to run.
C6_Witness ==
    /\ RoundAhead
    /\ Len(response.guesses) >= 2
    /\ Feasible(ModelNow) # {}

\* C7: the number recorded for a round is the number of candidates after that
\* round's filtering, which is the number at the start of the next round.
C7_CountAfterFilter ==
    /\ \A k \in DOMAIN response.nb_possible_words :
            k < Len(round_start) =>
                response.nb_possible_words[k] = Len(round_start[k + 1])
    /\ (pc = "loop" /\ response.nb_possible_words # <<>>) =>
            Last(response.nb_possible_words) = Len(valid_words)

\* C8: the three lists of the response have the same length, at most
\* max_attempts; an all-'G' feedback is the last entry and solve_wordle has
\* returned solved with it.
C8_ShortCircuit ==
    /\ Len(response.guesses) = Len(response.feedback)
    /\ Len(response.guesses) = Len(response.nb_possible_words)
    /\ Len(response.guesses) <= max_attempts
    /\ \A k \in DOMAIN response.feedback :
            response.feedback[k] = AllCorrect =>
                /\ k = Len(response.feedback)
                /\ pc = "done"
                /\ outcome = "solved"

\* C8 witness: solve_wordle returned solved after two or more rounds with
\* attempts left over.
C8_Witness ==
    /\ pc = "done"
    /\ outcome = "solved"
    /\ Len(response.guesses) >= 2
    /\ Len(response.guesses) < max_attempts
    /\ Last(response.feedback) = AllCorrect

\* C9: when a round is about to score its guess, the frequency tables it uses
\* are the tables of the candidates this round starts with.
C9_FreshTables ==
    (RoundAhead /\ Feasible(ModelNow) # {}) =>
        /\ SamePositional(positional_freq, PositionalFreq(valid_words))
        /\ SameTable(letter_frequency, LetterFrequency(valid_words))

\* C10: in a session whose target is in the list passed in, at the top of
\* the loop the target is a candidate, satisfies every constraint
\* update_model has added and is an assignment the solver can return; the
\* session never returns infeasible, only solved or exhausted.
C10_TargetNeverExcluded ==
    Target \in ElementsOf(entry_words) =>
        /\ pc = "loop" =>
            /\ Target \in ElementsOf(valid_words)
            /\ \A c \in model.constraints : Satisfies(Target, c)
            /\ Target \in Feasible(ModelNow)
        /\ outcome # "infeasible"
        /\ pc = "done" => outcome \in {"solved", "exhausted"}

\* C10 witness: a round is about to run after a guess that repeated a letter
\* of the target, marked absent at one position and correct or present at
\* another; the target is still a candidate.
C10_Witness ==
    /\ RoundAhead
    /\ Target \in ElementsOf(entry_words)
    /\ Target \in ElementsOf(valid_words)
    /\ \E c \in model.constraints : c.kind = "count" /\ c.gray # {}

====
